---- MODULE Spec2Model ----
(***************************************************************************)
(* flake8-simplify: the two pattern predicates (SIM101, SIM201), the       *)
(* ast.NodeVisitor subclass that applies them during a traversal, and      *)
(* Plugin.run, which hands the accumulated findings to flake8.             *)
(*                                                                         *)
(* Syntax trees are nested records.  Every node carries kind, lineno and   *)
(* col_offset; the other fields are those of the Python ast class of that  *)
(* kind.  Operator and context objects (ast.Or, ast.Not, ast.Eq, ast.Load) *)
(* carry no position and no children; they are the string-valued fields    *)
(* op / ops of their owner, not nodes of their own.                        *)
(***************************************************************************)
EXTENDS Integers, Sequences, FiniteSets, TLC

(***************************************************************************)
(* Bounds of the model.                                                    *)
(***************************************************************************)
\* operands of the boolean operations handed directly to the predicates
MaxOperands == 4
\* operators of the comparisons handed directly to the predicates
MaxCompareOps == 2
\* line numbers a root expression may start on
MaxLine == 2

(***************************************************************************)
(* Node constructors (positions are added by Locate).                      *)
(***************************************************************************)
Name(id) == [kind |-> "Name", id |-> id]

Attribute(value, attr) == [kind |-> "Attribute", value |-> value, attr |-> attr]

Keyword(arg, value) == [kind |-> "keyword", arg |-> arg, value |-> value]

Call(func, args, keywords) ==
    [kind |-> "Call", func |-> func, args |-> args, keywords |-> keywords]

Compare(left, ops, comparators) ==
    [kind |-> "Compare", left |-> left, ops |-> ops, comparators |-> comparators]

BoolOp(op, values) == [kind |-> "BoolOp", op |-> op, values |-> values]

UnaryOp(op, operand) == [kind |-> "UnaryOp", op |-> op, operand |-> operand]

\* Expressions that astor writes between parentheses.
IsOperatorExpr(n) == n.kind \in {"BoolOp", "UnaryOp", "Compare"}

OpText(op) ==
    CASE op = "Eq" -> " == "
      [] op = "NotEq" -> " != "
      [] op = "Lt" -> " < "
      [] op = "Or" -> " or "
      [] op = "And" -> " and "
      [] op = "Not" -> "not "
      [] op = "USub" -> "-"

(***************************************************************************)
(* astor.to_source(node).strip(): the canonical text of an expression.     *)
(* Positions are dropped, so distinct nodes may render to the same text.   *)
(***************************************************************************)
RECURSIVE to_source(_)
RECURSIVE JoinSource(_, _)
RECURSIVE CompareTail(_, _)

JoinSource(items, sep) ==
    IF items = <<>> THEN ""
    ELSE IF Len(items) = 1 THEN to_source(items[1])
    ELSE to_source(items[1]) \o sep \o JoinSource(Tail(items), sep)

CompareTail(ops, comparators) ==
    IF ops = <<>> THEN ""
    ELSE OpText(ops[1]) \o to_source(comparators[1])
         \o CompareTail(Tail(ops), Tail(comparators))

to_source(n) ==
    CASE n.kind = "Name" -> n.id
      [] n.kind = "Attribute" -> to_source(n.value) \o "." \o n.attr
      [] n.kind = "keyword" -> n.arg \o "=" \o to_source(n.value)
      [] n.kind = "Call" ->
            to_source(n.func) \o "(" \o JoinSource(n.args \o n.keywords, ", ") \o ")"
      [] n.kind = "Compare" ->
            "(" \o to_source(n.left) \o CompareTail(n.ops, n.comparators) \o ")"
      [] n.kind = "BoolOp" -> "(" \o JoinSource(n.values, OpText(n.op)) \o ")"
      [] n.kind = "UnaryOp" -> "(" \o OpText(n.op) \o to_source(n.operand) \o ")"

(***************************************************************************)
(* The positions the parser gives the nodes of an expression written on    *)
(* one line in canonical form, the root without parentheses: a node's      *)
(* col_offset is the column its own text starts at, after an opening       *)
(* parenthesis if it has one.                                              *)
(***************************************************************************)
RECURSIVE Locate(_, _, _)
RECURSIVE LocateSeq(_, _, _, _)
RECURSIVE LocateComparators(_, _, _, _)

LocateItem(n, l, c) == Locate(n, l, IF IsOperatorExpr(n) THEN c + 1 ELSE c)

LocateSeq(items, l, c, sep) ==
    IF items = <<>> THEN <<>>
    ELSE <<LocateItem(items[1], l, c)>>
         \o LocateSeq(Tail(items), l, c + Len(to_source(items[1])) + sep, sep)

LocateComparators(ops, comparators, l, c) ==
    IF ops = <<>> THEN <<>>
    ELSE LET at == c + Len(OpText(ops[1]))
         IN  <<LocateItem(comparators[1], l, at)>>
             \o LocateComparators(Tail(ops), Tail(comparators), l,
                                  at + Len(to_source(comparators[1])))

Locate(n, l, c) ==
    LET pos == [lineno |-> l, col_offset |-> c]
    IN  CASE n.kind = "Name" -> n @@ pos
          [] n.kind = "Attribute" -> [n EXCEPT !.value = Locate(n.value, l, c)] @@ pos
          [] n.kind = "keyword" ->
                [n EXCEPT !.value = LocateItem(n.value, l, c + Len(n.arg) + 1)] @@ pos
          [] n.kind = "Call" ->
                LET open == c + Len(to_source(n.func)) + 1
                    all == LocateSeq(n.args \o n.keywords, l, open, 2)
                IN  [n EXCEPT !.func = Locate(n.func, l, c),
                              !.args = SubSeq(all, 1, Len(n.args)),
                              !.keywords = SubSeq(all, Len(n.args) + 1, Len(all))] @@ pos
          [] n.kind = "Compare" ->
                [n EXCEPT !.left = LocateItem(n.left, l, c),
                          !.comparators =
                              LocateComparators(n.ops, n.comparators, l,
                                                c + Len(to_source(n.left)))] @@ pos
          [] n.kind = "BoolOp" ->
                [n EXCEPT !.values = LocateSeq(n.values, l, c, Len(OpText(n.op)))] @@ pos
          [] n.kind = "UnaryOp" ->
                [n EXCEPT !.operand =
                              LocateItem(n.operand, l, c + Len(OpText(n.op)))] @@ pos

(***************************************************************************)
(* The message templates.                                                  *)
(***************************************************************************)
SIM101(var) ==
    "SIM101 Multiple isinstance-calls which can be merged into a single "
    \o "call for variable '" \o var \o "'"

SIM201(left, right) ==
    "SIM201 Used 'not " \o left \o " == " \o right \o "' instead of '"
    \o left \o " != " \o right \o "'"

(***************************************************************************)
(* The outcome of a call: the list it returns, or the exception it raises. *)
(***************************************************************************)
Return(list) == [raised |-> FALSE, errors |-> list]

Raise == [raised |-> TRUE, errors |-> <<>>]

(***************************************************************************)
(* _get_duplicated_isinstance_call_by_node: the counter is a defaultdict,  *)
(* modelled by its keys in insertion order and their counts.               *)
(***************************************************************************)
EmptyCounter == [keys |-> <<>>, count |-> <<>>]

Increment(counter, key) ==
    IF \E i \in 1..Len(counter.keys) : counter.keys[i] = key
    THEN LET i == CHOOSE j \in 1..Len(counter.keys) : counter.keys[j] = key
         IN  [counter EXCEPT !.count[i] = @ + 1]
    ELSE [keys |-> Append(counter.keys, key), count |-> Append(counter.count, 1)]

RECURSIVE CountIsinstanceCalls(_, _)
CountIsinstanceCalls(values, counter) ==
    IF values = <<>> THEN counter
    ELSE LET call == values[1]
             rest == Tail(values)
         IN  IF call.kind # "Call" \/ Len(call.args) # 2
             THEN CountIsinstanceCalls(rest, counter)
             ELSE IF to_source(call.func) # "isinstance"
             THEN CountIsinstanceCalls(rest, counter)
             ELSE CountIsinstanceCalls(rest,
                                       Increment(counter, to_source(call.args[1])))

RECURSIVE KeysAbove(_, _)
KeysAbove(counter, least) ==
    IF counter.keys = <<>> THEN <<>>
    ELSE (IF counter.count[1] > least THEN <<counter.keys[1]>> ELSE <<>>)
         \o KeysAbove([keys |-> Tail(counter.keys), count |-> Tail(counter.count)],
                      least)

\* a variant that reports every counted key
call_by_node_any_count(node) ==
    KeysAbove(CountIsinstanceCalls(node.values, EmptyCounter), 0)

\* a variant that counts the operands of nested or-nodes with the node's own
RECURSIVE Flattened(_)
Flattened(values) ==
    IF values = <<>> THEN <<>>
    ELSE (IF values[1].kind = "BoolOp" /\ values[1].op = "Or"
          THEN Flattened(values[1].values) ELSE <<values[1]>>)
         \o Flattened(Tail(values))

call_by_node_flattening(node) ==
    KeysAbove(CountIsinstanceCalls(Flattened(node.values), EmptyCounter), 1)

get_duplicated_isinstance_call_by_node(node) ==
    KeysAbove(CountIsinstanceCalls(node.values, EmptyCounter), 1)

(***************************************************************************)
(* _get_duplicated_isinstance_calls                                        *)
(***************************************************************************)
\* a variant without the test of the operator
duplicated_calls_any_operator(node) ==
    LET vars == get_duplicated_isinstance_call_by_node(node)
    IN  Return([i \in 1..Len(vars) |->
                   <<node.lineno, node.col_offset, SIM101(vars[i])>>])

get_duplicated_isinstance_calls(node) ==
    IF node.op # "Or" THEN Return(<<>>)
    ELSE LET vars == get_duplicated_isinstance_call_by_node(node)
         IN  Return([i \in 1..Len(vars) |->
                        <<node.lineno, node.col_offset, SIM101(vars[i])>>])

(***************************************************************************)
(* _get_not_equal_calls                                                    *)
(***************************************************************************)
\* a variant without the test of the number of operators
not_equal_calls_chained(node) ==
    IF \/ node.op # "Not"
       \/ node.operand.kind # "Compare"
       \/ node.operand.ops[1] # "Eq"
    THEN Return(<<>>)
    ELSE Return(<<<<node.lineno, node.col_offset,
                    SIM201(to_source(node.operand.left),
                           to_source(node.operand.comparators[1]))>>>>)

\* a variant that reports the position of the comparison
not_equal_calls_at_operand(node) ==
    IF \/ node.op # "Not"
       \/ node.operand.kind # "Compare"
       \/ Len(node.operand.ops) # 1
       \/ node.operand.ops[1] # "Eq"
    THEN Return(<<>>)
    ELSE Return(<<<<node.operand.lineno, node.operand.col_offset,
                    SIM201(to_source(node.operand.left),
                           to_source(node.operand.comparators[1]))>>>>)

\* a variant without the test of the operand's type: reading ops of an
\* operand that is no comparison raises AttributeError
not_equal_calls_unguarded(node) ==
    IF node.op # "Not" THEN Return(<<>>)
    ELSE IF node.operand.kind # "Compare" THEN Raise
    ELSE IF Len(node.operand.ops) # 1 \/ node.operand.ops[1] # "Eq" THEN Return(<<>>)
    ELSE Return(<<<<node.lineno, node.col_offset,
                    SIM201(to_source(node.operand.left),
                           to_source(node.operand.comparators[1]))>>>>)

get_not_equal_calls(node) ==
    IF \/ node.op # "Not"
       \/ node.operand.kind # "Compare"
       \/ Len(node.operand.ops) # 1
       \/ node.operand.ops[1] # "Eq"
    THEN Return(<<>>)
    ELSE LET comparison == node.operand
         IN  IF comparison.comparators = <<>> THEN Raise  \* comparators[0]: IndexError
             ELSE Return(<<<<node.lineno, node.col_offset,
                             SIM201(to_source(comparison.left),
                                    to_source(comparison.comparators[1]))>>>>)

(***************************************************************************)
(* Sequences of a given length range over a set.                           *)
(***************************************************************************)
SeqsOf(S, lo, hi) == UNION {[1..n -> S] : n \in lo..hi}

(***************************************************************************)
(* The nodes the predicates are applied to directly.                       *)
(***************************************************************************)
IsinstanceName == Name("isinstance")

\* a call through an attribute, and a call through an alias
OtherCallees == {Attribute(Name("builtins"), "isinstance"), Name("isinst")}

\* operands the predicate may count
CoreOperands ==
    {Call(IsinstanceName, <<Name("a"), Name("int")>>, <<>>),
     Call(IsinstanceName, <<Name("a"), Name("float")>>, <<>>),
     Call(IsinstanceName, <<Name("b"), Name("int")>>, <<>>),
     Call(IsinstanceName, <<Name("a"), Name("int")>>, <<Keyword("k", Name("int"))>>)}

\* other arities, other callees, and operands that are no call
OddOperands ==
    {Call(IsinstanceName, <<Name("a")>>, <<>>),
     Call(IsinstanceName, <<Name("a"), Name("int"), Name("float")>>, <<>>),
     Call(IsinstanceName, <<Name("a")>>, <<Keyword("k", Name("int"))>>),
     Name("a"),
     BoolOp("Or", <<Call(IsinstanceName, <<Name("a"), Name("int")>>, <<>>),
                    Call(IsinstanceName, <<Name("a"), Name("float")>>, <<>>)>>)}
    \cup {Call(f, <<Name("a"), Name("int")>>, <<>>) : f \in OtherCallees}

\* operand lists: core operands, at most one of them replaced by an odd one,
\* and pairs of odd operands
PredOperandLists ==
    LET core == SeqsOf(CoreOperands, 2, MaxOperands)
    IN  core
        \cup UNION {{[v EXCEPT ![i] = odd] : i \in 1..Len(v), odd \in OddOperands} :
                        v \in core}
        \cup SeqsOf(OddOperands, 2, 2)

PredBoolOps ==
    {BoolOp(op, values) : op \in {"Or", "And"}, values \in PredOperandLists}

PredCompares ==
    {Compare(Name(l), ops, [i \in 1..Len(ops) |-> Name(IF i = 1 THEN r ELSE "c")]) :
        l \in {"a", "b"}, r \in {"a", "b"},
        ops \in SeqsOf({"Eq", "NotEq", "Lt"}, 1, MaxCompareOps)}

PredUnaryOps ==
    {UnaryOp(op, operand) :
        op \in {"Not", "USub"},
        operand \in PredCompares
                    \cup {Name("a"),
                          Call(IsinstanceName, <<Name("a"), Name("int")>>, <<>>),
                          BoolOp("Or", <<Name("a"), Name("b")>>)}}

\* where the expression handed to a predicate starts
RootPositions == {<<1, 0>>, <<2, 4>>}

PredNodes ==
    {Locate(n, p[1], p[2]) : n \in PredBoolOps \cup PredUnaryOps, p \in RootPositions}

(***************************************************************************)
(* The trees Plugin.run is given.                                          *)
(***************************************************************************)
\* operands of the inner boolean operations of a traversed tree
MaxValues == 2

IsinstanceOf(x, T) == Call(IsinstanceName, <<Name(x), Name(T)>>, <<>>)

NotEqual == UnaryOp("Not", Compare(Name("a"), <<"Eq">>, <<Name("b")>>))

TreeCalls ==
    {IsinstanceOf("a", "int"),
     IsinstanceOf("b", "int"),
     Call(Attribute(Name("builtins"), "isinstance"), <<Name("a"), Name("int")>>, <<>>)}

InnerBoolOps ==
    {BoolOp(op, values) : op \in {"Or", "And"}, values \in SeqsOf(TreeCalls, 2, MaxValues)}

InnerUnaryOps ==
    {UnaryOp(op, operand) :
        op \in {"Not", "USub"},
        operand \in {Name("a"),
                     Compare(Name("a"), <<"Eq">>, <<Name("b")>>),
                     Compare(Name("a"), <<"NotEq">>, <<Name("b")>>),
                     Compare(Name("a"), <<"Eq", "Eq">>, <<Name("b"), Name("c")>>)}}

InnerExprs == InnerBoolOps \cup InnerUnaryOps

OuterExprs ==
    {BoolOp(op, <<x, y>>) :
        op \in {"Or", "And"},
        x \in InnerExprs \cup TreeCalls \cup {Name("a")},
        y \in {IsinstanceOf("a", "int"),
               BoolOp("Or", <<IsinstanceOf("a", "int"), IsinstanceOf("a", "int")>>),
               NotEqual}}
    \cup {UnaryOp("Not", x) : x \in InnerExprs}
    \cup {UnaryOp("Not", Compare(x, <<"Eq">>, <<Name("b")>>)) : x \in InnerBoolOps}
    \cup {Call(Name("f"), <<x>>, <<Keyword("k", NotEqual)>>) : x \in InnerBoolOps}

\* (isinstance(a, int) or isinstance(a, float)) or isinstance(b, int)
NestingExample ==
    BoolOp("Or", <<BoolOp("Or", <<IsinstanceOf("a", "int"), IsinstanceOf("a", "float")>>),
                   IsinstanceOf("b", "int")>>)

Trees ==
    {Locate(n, l, 0) : n \in InnerExprs \cup OuterExprs \cup {NestingExample},
                       l \in 1..MaxLine}

\* the trees of the runs that share a process
RunTrees ==
    {Locate(n, 1, 0) :
        n \in {NotEqual,
               UnaryOp("Not", Name("a")),
               BoolOp("Or", <<IsinstanceOf("a", "int"), IsinstanceOf("a", "int")>>)}}

\* calls of Plugin.run that share a process
NumRuns == 2

(***************************************************************************)
(* ast.iter_child_nodes: the children of a node, in field order.           *)
(***************************************************************************)
Children(n) ==
    CASE n.kind = "Name" -> <<>>
      [] n.kind = "Attribute" -> <<n.value>>
      [] n.kind = "keyword" -> <<n.value>>
      [] n.kind = "Call" -> <<n.func>> \o n.args \o n.keywords
      [] n.kind = "Compare" -> <<n.left>> \o n.comparators
      [] n.kind = "BoolOp" -> n.values
      [] n.kind = "UnaryOp" -> <<n.operand>>

\* A node is named by its path from the root: the child indices on the way.
RECURSIVE NodeAt(_, _)
NodeAt(root, path) ==
    IF path = <<>> THEN root
    ELSE NodeAt(Children(root)[path[1]], Tail(path))

(***************************************************************************)
(* State.                                                                  *)
(***************************************************************************)
VARIABLES
    arg,        \* the node a predicate is called with
    called,     \* whether the predicate has returned
    ret,        \* what it returned
    pc,         \* per run: idle, visiting, yielding, done, raised
    tree,       \* per run: Plugin._tree
    stack,      \* per run: the frames of generic_visit, innermost last
    errors,     \* per list: the content of a Visitor's errors
    yielded,    \* per run: what Plugin.run has yielded so far
    visited,    \* per run: the nodes visit was called on, in order (history)
    invoked,    \* per run: the nodes a predicate was called on (history)
    origin      \* per list: for each entry, the run and node it came from (history)

predVars == <<arg, called, ret>>

runVars == <<pc, tree, stack, errors, yielded, visited, invoked, origin>>

vars == <<arg, called, ret, pc, tree, stack, errors, yielded, visited, invoked, origin>>

(***************************************************************************)
(* The predicates as pure functions: one call on one node.                 *)
(***************************************************************************)
PredInit ==
    /\ arg \in PredNodes
    /\ called = FALSE
    /\ ret = Return(<<>>)
    /\ pc = <<>> /\ tree = <<>> /\ stack = <<>> /\ errors = <<>>
    /\ yielded = <<>> /\ visited = <<>> /\ invoked = <<>> /\ origin = <<>>

Call_get_duplicated_isinstance_calls ==
    /\ ~called
    /\ arg.kind = "BoolOp"
    /\ ret' = get_duplicated_isinstance_calls(arg)
    /\ called' = TRUE
    /\ UNCHANGED <<arg, runVars>>

Call_get_not_equal_calls ==
    /\ ~called
    /\ arg.kind = "UnaryOp"
    /\ ret' = get_not_equal_calls(arg)
    /\ called' = TRUE
    /\ UNCHANGED <<arg, runVars>>

PredNext ==
    \/ Call_get_duplicated_isinstance_calls
    \/ Call_get_not_equal_calls

PredSpec == PredInit /\ [][PredNext]_vars

(***************************************************************************)
(* Plugin.run and the Visitor.                                             *)
(***************************************************************************)
\* a variant in which every Visitor holds the same list
errors_shared(r) == 1

\* Visitor.__init__: the list bound to self.errors of the Visitor that run r
\* creates, a new one for every Visitor.
errors_of_visitor(r) == r

RunInit(runs, trees) ==
    /\ arg = Name("a") /\ called = FALSE /\ ret = Return(<<>>)
    /\ pc = [r \in runs |-> "idle"]
    /\ tree \in [runs -> trees]
    /\ stack = [r \in runs |-> <<>>]
    /\ errors = [r \in runs |-> <<>>]
    /\ yielded = [r \in runs |-> <<>>]
    /\ visited = [r \in runs |-> <<>>]
    /\ invoked = [r \in runs |-> <<>>]
    /\ origin = [r \in runs |-> <<>>]

\* Plugin.run up to the call of visitor.visit
Run(r) ==
    /\ pc[r] = "idle"
    /\ pc' = [pc EXCEPT ![r] = "visiting"]
    /\ errors' = [errors EXCEPT ![errors_of_visitor(r)] = <<>>]
    /\ origin' = [origin EXCEPT ![errors_of_visitor(r)] = <<>>]
    /\ UNCHANGED <<predVars, tree, stack, yielded, visited, invoked>>

Top(r) == stack[r][Len(stack[r])]

\* whether the run is about to call visit: on the root, or on the next child
\* of the node whose generic_visit loop is innermost
HasCall(r) ==
    /\ pc[r] = "visiting"
    /\ IF stack[r] = <<>> THEN visited[r] = <<>>
       ELSE Top(r).next <= Len(Children(NodeAt(tree[r], Top(r).path)))

Callee(r) ==
    IF stack[r] = <<>> THEN <<>> ELSE Append(Top(r).path, Top(r).next)

\* the caller's loop moves on, and the callee's generic_visit loop starts
Enter(r, path) ==
    LET caller == IF stack[r] = <<>> THEN <<>>
                  ELSE [stack[r] EXCEPT ![Len(stack[r])].next = @ + 1]
    IN  Append(caller, [path |-> path, next |-> 1])

Found(r, path, found) ==
    /\ errors' = [errors EXCEPT ![errors_of_visitor(r)] = @ \o found]
    /\ origin' = [origin EXCEPT ![errors_of_visitor(r)] =
                     @ \o [i \in 1..Len(found) |-> [run |-> r, path |-> path]]]

\* a variant that descends only where nothing was found
visit_BoolOp_pruning(r) ==
    /\ HasCall(r)
    /\ NodeAt(tree[r], Callee(r)).kind = "BoolOp"
    /\ LET path == Callee(r)
           outcome == get_duplicated_isinstance_calls(NodeAt(tree[r], path))
       IN  /\ Found(r, path, outcome.errors)
           /\ stack' = [stack EXCEPT ![r] =
                           IF outcome.errors = <<>> THEN Enter(r, path)
                           ELSE [Enter(r, path) EXCEPT ![Len(Enter(r, path))].next =
                                    Len(Children(NodeAt(tree[r], path))) + 1]]
           /\ visited' = [visited EXCEPT ![r] = Append(@, path)]
           /\ invoked' = [invoked EXCEPT ![r] = Append(@, path)]
           /\ UNCHANGED <<predVars, pc, tree, yielded>>

\* a variant that puts the new findings first
visit_BoolOp_prepending(r) ==
    /\ HasCall(r)
    /\ NodeAt(tree[r], Callee(r)).kind = "BoolOp"
    /\ LET path == Callee(r)
           outcome == get_duplicated_isinstance_calls(NodeAt(tree[r], path))
       IN  /\ errors' = [errors EXCEPT ![errors_of_visitor(r)] = outcome.errors \o @]
           /\ origin' = [origin EXCEPT ![errors_of_visitor(r)] =
                            [i \in 1..Len(outcome.errors) |-> [run |-> r, path |-> path]]
                            \o @]
           /\ stack' = [stack EXCEPT ![r] = Enter(r, path)]
           /\ visited' = [visited EXCEPT ![r] = Append(@, path)]
           /\ invoked' = [invoked EXCEPT ![r] = Append(@, path)]
           /\ UNCHANGED <<predVars, pc, tree, yielded>>

\* Visitor.visit_BoolOp, up to the first step of generic_visit's loop
visit_BoolOp(r) ==
    /\ HasCall(r)
    /\ NodeAt(tree[r], Callee(r)).kind = "BoolOp"
    /\ LET path == Callee(r)
           outcome == get_duplicated_isinstance_calls(NodeAt(tree[r], path))
       IN  /\ visited' = [visited EXCEPT ![r] = Append(@, path)]
           /\ invoked' = [invoked EXCEPT ![r] = Append(@, path)]
           /\ IF outcome.raised
              THEN /\ pc' = [pc EXCEPT ![r] = "raised"]
                   /\ UNCHANGED <<errors, origin, stack>>
              ELSE /\ Found(r, path, outcome.errors)
                   /\ stack' = [stack EXCEPT ![r] = Enter(r, path)]
                   /\ UNCHANGED pc
           /\ UNCHANGED <<predVars, tree, yielded>>

\* Visitor.visit_UnaryOp, up to the first step of generic_visit's loop
visit_UnaryOp(r) ==
    /\ HasCall(r)
    /\ NodeAt(tree[r], Callee(r)).kind = "UnaryOp"
    /\ LET path == Callee(r)
           outcome == get_not_equal_calls(NodeAt(tree[r], path))
       IN  /\ visited' = [visited EXCEPT ![r] = Append(@, path)]
           /\ invoked' = [invoked EXCEPT ![r] = Append(@, path)]
           /\ IF outcome.raised
              THEN /\ pc' = [pc EXCEPT ![r] = "raised"]
                   /\ UNCHANGED <<errors, origin, stack>>
              ELSE /\ Found(r, path, outcome.errors)
                   /\ stack' = [stack EXCEPT ![r] = Enter(r, path)]
                   /\ UNCHANGED pc
           /\ UNCHANGED <<predVars, tree, yielded>>

\* NodeVisitor.visit on a node of any other kind: generic_visit
generic_visit(r) ==
    /\ HasCall(r)
    /\ NodeAt(tree[r], Callee(r)).kind \notin {"BoolOp", "UnaryOp"}
    /\ stack' = [stack EXCEPT ![r] = Enter(r, Callee(r))]
    /\ visited' = [visited EXCEPT ![r] = Append(@, Callee(r))]
    /\ UNCHANGED <<predVars, pc, tree, errors, origin, yielded, invoked>>

\* generic_visit's loop is over: visit returns to its caller; when the
\* root's visit returns, Plugin.run goes on to its own loop
Return_visit(r) ==
    /\ pc[r] = "visiting"
    /\ stack[r] # <<>>
    /\ Top(r).next > Len(Children(NodeAt(tree[r], Top(r).path)))
    /\ stack' = [stack EXCEPT ![r] = SubSeq(@, 1, Len(@) - 1)]
    /\ pc' = [pc EXCEPT ![r] = IF Len(stack[r]) = 1 THEN "yielding" ELSE "visiting"]
    /\ UNCHANGED <<predVars, tree, errors, origin, yielded, visited, invoked>>

\* Plugin.run's loop: the next entry of visitor.errors, with type(self)
Yield(r) ==
    /\ pc[r] = "yielding"
    /\ Len(yielded[r]) < Len(errors[errors_of_visitor(r)])
    /\ LET e == errors[errors_of_visitor(r)][Len(yielded[r]) + 1]
       IN  yielded' = [yielded EXCEPT ![r] = Append(@, <<e[1], e[2], e[3], "Plugin">>)]
    /\ UNCHANGED <<predVars, pc, tree, stack, errors, origin, visited, invoked>>

\* the list is exhausted: the generator ends
Finish(r) ==
    /\ pc[r] = "yielding"
    /\ Len(yielded[r]) >= Len(errors[errors_of_visitor(r)])
    /\ pc' = [pc EXCEPT ![r] = "done"]
    /\ UNCHANGED <<predVars, tree, stack, errors, origin, yielded, visited, invoked>>

Step(r) ==
    \/ Run(r)
    \/ visit_BoolOp(r)
    \/ visit_UnaryOp(r)
    \/ generic_visit(r)
    \/ Return_visit(r)
    \/ Yield(r)
    \/ Finish(r)

\* one run over one tree
Init == RunInit({1}, Trees)

Next == Step(1)

Spec == Init /\ [][Next]_vars

\* visitor.visit runs without suspension points: once called it goes on
\* until it returns.  (Starting the generator and resuming it after a yield
\* are up to its consumer.)
Traverse(r) == visit_BoolOp(r) \/ visit_UnaryOp(r) \/ generic_visit(r) \/ Return_visit(r)

FairSpec == Spec /\ WF_vars(Traverse(1))

\* several runs in one process, each over a tree of its own
RunsInit == RunInit(1..NumRuns, RunTrees)

RunsNext == \E r \in 1..NumRuns : Step(r)

RunsSpec == RunsInit /\ [][RunsNext]_vars

(***************************************************************************)
(* Properties of the predicates (PredSpec).                                *)
(***************************************************************************)
\* The operands the code counts: calls with two positional arguments whose
\* callee renders to isinstance.
IsCounted(v) ==
    /\ v.kind = "Call"
    /\ Len(v.args) = 2
    /\ to_source(v.func) = "isinstance"

Occurrences(node, text) ==
    Cardinality({i \in 1..Len(node.values) :
                    IsCounted(node.values[i]) /\ to_source(node.values[i].args[1]) = text})

FirstArgTexts(node) ==
    {to_source(node.values[i].args[1]) :
        i \in {j \in 1..Len(node.values) : IsCounted(node.values[j])}}

FindingsWith(list, finding) ==
    Cardinality({i \in 1..Len(list) : list[i] = finding})

ReturnedFromOr == called /\ arg.kind = "BoolOp" /\ arg.op = "Or"

\* C1: at an or-node the SIM101 findings are exactly one per first-argument
\* text counted more than once among the node's direct isinstance operands
\* (one for a count of 2, 3 or more, none for a count of 1), each at the
\* node's position with the SIM101 message for that text, and nothing else.
C1_OneFindingPerDuplicatedText ==
    /\ SIM101("a") = "SIM101 Multiple isinstance-calls which can be merged into a single call for variable 'a'"
    /\ ReturnedFromOr =>
          /\ ~ret.raised
          /\ \A t \in FirstArgTexts(arg) :
                FindingsWith(ret.errors, <<arg.lineno, arg.col_offset, SIM101(t)>>)
                    = IF Occurrences(arg, t) > 1 THEN 1 ELSE 0
          /\ Len(ret.errors) =
                Cardinality({t \in FirstArgTexts(arg) : Occurrences(arg, t) > 1})

\* two distinct duplicated texts in one or-chain: two findings
C1_Witness ==
    /\ ReturnedFromOr
    /\ Len(ret.errors) = 2
    /\ ret.errors[1] # ret.errors[2]

\* a text counted three times: one finding
C1_WitnessThree ==
    /\ ReturnedFromOr
    /\ \E t \in FirstArgTexts(arg) : Occurrences(arg, t) = 3
    /\ Len(ret.errors) = 1

ReturnedFromUnary == called /\ arg.kind = "UnaryOp"

Fires(node) ==
    /\ node.op = "Not"
    /\ node.operand.kind = "Compare"
    /\ Len(node.operand.ops) = 1
    /\ node.operand.ops[1] = "Eq"

\* C2: the negated-equality predicate returns exactly one SIM201 finding iff
\* the operator is not, the operand a comparison with exactly one operator,
\* and that operator is ==; otherwise it returns no finding.  The message
\* names the rendered left operand and the single comparator.
C2_NegatedEquality ==
    /\ SIM201("a", "b") = "SIM201 Used 'not a == b' instead of 'a != b'"
    /\ ReturnedFromUnary =>
          /\ ~ret.raised
          /\ Fires(arg) =>
                ret.errors = <<<<arg.lineno, arg.col_offset,
                                 SIM201(to_source(arg.operand.left),
                                        to_source(arg.operand.comparators[1]))>>>>
          /\ ~Fires(arg) => ret.errors = <<>>

C2_Witness ==
    /\ ReturnedFromUnary
    /\ Fires(arg)
    /\ Len(ret.errors) = 1

\* not (a == b == c), not (a != b), not a, -(a == b): nothing
C2_WitnessSilent ==
    /\ ReturnedFromUnary
    /\ arg.op = "Not"
    /\ arg.operand.kind = "Compare"
    /\ Len(arg.operand.ops) = 2
    /\ arg.operand.ops[1] = "Eq"
    /\ ret.errors = <<>>

\* C4: for a boolean operation whose operator is and, the duplicate-isinstance
\* predicate returns no finding, whatever its operands.
C4_AndNeverFlagged ==
    (called /\ arg.kind = "BoolOp" /\ arg.op = "And") =>
        (~ret.raised /\ ret.errors = <<>>)

\* an and-chain whose operands are all isinstance(a, T)
C4_Witness ==
    /\ called
    /\ arg.kind = "BoolOp"
    /\ arg.op = "And"
    /\ \A i \in 1..Len(arg.values) :
          IsCounted(arg.values[i]) /\ to_source(arg.values[i].args[1]) = "a"
    /\ ret.errors = <<>>

\* The operands C5 says are counted: calls that carry two arguments in all,
\* positional and keyword, whose callee renders to isinstance.
HasTwoArguments(v) ==
    /\ v.kind = "Call"
    /\ Len(v.args) + Len(v.keywords) = 2
    /\ to_source(v.func) = "isinstance"

\* C5: an operand contributes to a SIM101 finding only if it is a call that
\* carries exactly two arguments in all (positional and keyword) and whose
\* callee renders to isinstance: every finding names the first argument of
\* at least two such operands.
C5_OnlyTwoArgumentCalls ==
    ReturnedFromOr =>
        \A k \in 1..Len(ret.errors) :
            \E i, j \in 1..Len(arg.values) :
                /\ i # j
                /\ HasTwoArguments(arg.values[i]) /\ Len(arg.values[i].args) > 0
                /\ HasTwoArguments(arg.values[j]) /\ Len(arg.values[j].args) > 0
                /\ ret.errors[k][3] = SIM101(to_source(arg.values[i].args[1]))
                /\ ret.errors[k][3] = SIM101(to_source(arg.values[j].args[1]))

(***************************************************************************)
(* Properties of the traversal (Spec, FairSpec).                           *)
(***************************************************************************)
RECURSIVE PreOrder(_, _)
RECURSIVE PreOrderFrom(_, _, _)

\* the paths of the nodes of a tree, a node before its children, the
\* children in field order
PreOrder(n, path) == <<path>> \o PreOrderFrom(n, path, 1)

PreOrderFrom(n, path, i) ==
    IF i > Len(Children(n)) THEN <<>>
    ELSE PreOrder(Children(n)[i], Append(path, i)) \o PreOrderFrom(n, path, i + 1)

IsPatternNode(n) == n.kind \in {"BoolOp", "UnaryOp"}

\* what the predicate of a node's kind returns at that node
NodeFindings(n) ==
    IF n.kind = "BoolOp" THEN get_duplicated_isinstance_calls(n).errors
    ELSE IF n.kind = "UnaryOp" THEN get_not_equal_calls(n).errors
    ELSE <<>>

RECURSIVE FindingsAlong(_, _)
FindingsAlong(root, paths) ==
    IF paths = <<>> THEN <<>>
    ELSE NodeFindings(NodeAt(root, paths[1])) \o FindingsAlong(root, Tail(paths))

RECURSIVE PatternPaths(_, _)
PatternPaths(root, paths) ==
    IF paths = <<>> THEN <<>>
    ELSE (IF IsPatternNode(NodeAt(root, paths[1])) THEN <<paths[1]>> ELSE <<>>)
         \o PatternPaths(root, Tail(paths))

IndexOf(seq, x) == CHOOSE i \in 1..Len(seq) : seq[i] = x

NoDuplicates(seq) == \A i, j \in 1..Len(seq) : seq[i] = seq[j] => i = j

IsPrefix(p, q) == Len(p) <= Len(q) /\ SubSeq(q, 1, Len(p)) = p

Runs == DOMAIN pc

TraversalOver(r) == pc[r] \in {"yielding", "done"}

\* the proper descendants of a node, as paths from it
DescendantPaths(n) == {q \in {PreOrder(n, <<>>)[i] : i \in 1..Len(PreOrder(n, <<>>))} : q # <<>>}

Position(n) == <<n.lineno, n.col_offset>>

Trigger(r, k) == NodeAt(tree[origin[r][k].run], origin[r][k].path)

\* C3 as stated: every finding carries the (line, column) of the node that
\* triggered it and never the position of an operand, a comparator or any
\* other sub-expression of that node.
C3_NeverAnOperandPosition ==
    \A r \in Runs : \A k \in 1..Len(errors[r]) :
        /\ <<errors[r][k][1], errors[r][k][2]>> = Position(Trigger(r, k))
        /\ \A q \in DescendantPaths(Trigger(r, k)) :
              Position(NodeAt(Trigger(r, k), q)) # <<errors[r][k][1], errors[r][k][2]>>

\* C3, amended: every finding carries the (line, column) stored on the node
\* that triggered it, and is a finding of that node's predicate.  For a
\* unary-not node no sub-expression has that position; for an or-node only
\* the sub-expressions that begin its text (its first operand, that
\* operand's first child, ...) can share it.
C3_TriggerPosition ==
    \A r \in Runs : \A k \in 1..Len(errors[r]) :
        LET n == Trigger(r, k)
        IN  /\ <<errors[r][k][1], errors[r][k][2]>> = Position(n)
            /\ IsPatternNode(n)
            /\ \E j \in 1..Len(NodeFindings(n)) : NodeFindings(n)[j] = errors[r][k]
            /\ \A q \in DescendantPaths(n) :
                  Position(NodeAt(n, q)) = Position(n) =>
                      (n.kind = "BoolOp" /\ \A i \in 1..Len(q) : q[i] = 1)

\* a SIM201 finding and a SIM101 finding, their nodes at different positions
C3_Witness ==
    \E r \in Runs :
        /\ pc[r] = "done"
        /\ \E k, m \in 1..Len(errors[r]) :
              /\ Trigger(r, k).kind = "UnaryOp"
              /\ Trigger(r, m).kind = "BoolOp"
              /\ Position(Trigger(r, k)) # Position(Trigger(r, m))

IsNestingExample(t) == \E l \in 1..MaxLine : t = Locate(NestingExample, l, 0)

\* C6 as stated: for (isinstance(a, int) or isinstance(a, float)) or
\* isinstance(b, int) the output holds two findings, one at the position of
\* the inner or-node and one at the position of the outer or-node.
C6_BothFindings ==
    \A r \in Runs :
        (IsNestingExample(tree[r]) /\ pc[r] = "done") =>
            /\ \E k \in 1..Len(yielded[r]) :
                  <<yielded[r][k][1], yielded[r][k][2]>> = Position(NodeAt(tree[r], <<1>>))
            /\ \E k \in 1..Len(yielded[r]) :
                  <<yielded[r][k][1], yielded[r][k][2]>> = Position(tree[r])

\* C6, amended: the outer or-node counts only its direct operands and
\* produces no finding (its one counted operand is isinstance(b, int)); the
\* inner or-node produces the SIM101 finding for a at its own position, and
\* that finding is the whole output.
C6_InnerFindingOnly ==
    \A r \in Runs :
        IsNestingExample(tree[r]) =>
            /\ visited[r] = <<<<>>>> => errors[r] = <<>>
            /\ \A k \in 1..Len(origin[r]) : origin[r][k].path = <<1>>
            /\ pc[r] = "done" =>
                  yielded[r] = <<<<tree[r].lineno, 1, SIM101("a"), "Plugin">>>>

C6_Witness ==
    \E r \in Runs :
        /\ IsNestingExample(tree[r])
        /\ pc[r] = "done"
        /\ Len(yielded[r]) = 1

\* what holds of the visits in every state of a traversal
VisitsOnce ==
    \A r \in Runs :
        /\ NoDuplicates(visited[r])
        /\ IsPrefix(visited[r], PreOrder(tree[r], <<>>))
        /\ invoked[r] = PatternPaths(tree[r], visited[r])
        /\ TraversalOver(r) =>
              /\ visited[r] = PreOrder(tree[r], <<>>)
              /\ \A i \in 1..Len(invoked[r]) :
                    Cardinality({k \in 1..Len(origin[r]) : origin[r][k].path = invoked[r][i]})
                        = Len(NodeFindings(NodeAt(tree[r], invoked[r][i])))

\* C7: a traversal visits every node of the tree exactly once and ends; the
\* predicate is called at every boolean-operation and unary-operation node,
\* also below a node that produced a finding, and each such node's findings
\* are all in the list.
C7_VisitsEveryNodeOnce == []VisitsOnce /\ ((pc[1] = "visiting") ~> TraversalOver(1))

\* a flagged node inside a flagged node: both findings are in the list
C7_Witness ==
    \E r \in Runs :
        /\ pc[r] = "done"
        /\ \E k, m \in 1..Len(origin[r]) :
              /\ origin[r][k].path # origin[r][m].path
              /\ IsPrefix(origin[r][k].path, origin[r][m].path)

Yielded(list) == [k \in 1..Len(list) |-> <<list[k][1], list[k][2], list[k][3], "Plugin">>]

\* what holds of the list in every state of a traversal
DiscoveryOrder ==
    \A r \in Runs :
        /\ \A k, m \in 1..Len(origin[r]) :
              k <= m => IndexOf(PreOrder(tree[r], <<>>), origin[r][k].path)
                          <= IndexOf(PreOrder(tree[r], <<>>), origin[r][m].path)
        /\ errors[r] = FindingsAlong(tree[r], visited[r])
        /\ TraversalOver(r) => errors[r] = FindingsAlong(tree[r], PreOrder(tree[r], <<>>))
        /\ IsPrefix(yielded[r], Yielded(errors[r]))
        /\ pc[r] = "done" => yielded[r] = Yielded(errors[r])

AppendOnly ==
    \A r \in Runs : IsPrefix(errors[r], errors'[r]) /\ IsPrefix(yielded[r], yielded'[r])

\* C8: the findings are accumulated in depth-first pre-order: those of a node
\* before those of its descendants, those of a child's subtree before those
\* of a later sibling's; the list only grows at its end; and Plugin.run
\* yields the findings in that order.
C8_PreOrderAppendOnly == []DiscoveryOrder /\ [][AppendOnly]_vars

\* two findings of different nodes, both yielded
C8_Witness ==
    \E r \in Runs :
        /\ pc[r] = "done"
        /\ Len(yielded[r]) >= 2
        /\ origin[r][1].path # origin[r][2].path

\* C10: on a well-formed tree no predicate raises, and a node at which the
\* predicate finds nothing does not keep it from being called at the other
\* boolean-operation and unary-operation nodes: after the traversal it has
\* been called at each of them once.
C10_NeverRaises ==
    \A r \in Runs :
        /\ pc[r] # "raised"
        /\ TraversalOver(r) =>
              invoked[r] = PatternPaths(tree[r], PreOrder(tree[r], <<>>))

\* a node without a finding, and after it a node with one
C10_Witness ==
    \E r \in Runs :
        /\ pc[r] = "done"
        /\ \E i, j \in 1..Len(invoked[r]) :
              /\ i < j
              /\ NodeFindings(NodeAt(tree[r], invoked[r][i])) = <<>>
              /\ NodeFindings(NodeAt(tree[r], invoked[r][j])) # <<>>

(***************************************************************************)
(* Properties of runs that share a process (RunsSpec).                     *)
(***************************************************************************)
\* C9: every call of Plugin.run works on a list of its own: the list of a
\* run holds only findings of that run's traversal, a finished run has
\* yielded the findings of its own tree and nothing else, and two finished
\* runs over equal trees have yielded equal lists, however they interleaved.
C9_RunsAreIndependent ==
    /\ \A r \in Runs :
          /\ \A k \in 1..Len(origin[errors_of_visitor(r)]) :
                origin[errors_of_visitor(r)][k].run = r
          /\ pc[r] = "done" =>
                yielded[r] = Yielded(FindingsAlong(tree[r], PreOrder(tree[r], <<>>)))
    /\ \A r1, r2 \in Runs :
          (pc[r1] = "done" /\ pc[r2] = "done" /\ tree[r1] = tree[r2]) =>
              yielded[r1] = yielded[r2]

\* two finished runs over equal trees, each with a finding
C9_Witness ==
    /\ Cardinality(Runs) > 1
    /\ \E r1, r2 \in Runs :
          /\ r1 # r2
          /\ pc[r1] = "done" /\ pc[r2] = "done"
          /\ tree[r1] = tree[r2]
          /\ yielded[r1] # <<>>

====
